---- MODULE Spec2Model ----
(***************************************************************************)
(* ReuseKit: Session.run over a Pipeline of Tasks against a Device, with   *)
(* the hash-chained audit Logger and the file-based Wipe task.             *)
(*                                                                         *)
(* Strings of the program are TLA+ strings; a hex digest is modelled as    *)
(* the sequence <<"sha256", line>> (an ideal, collision-free hash), so the *)
(* empty-string sentinel of the cursor is the empty sequence.              *)
(*                                                                         *)
(* Session.run is cut at its event() calls and at task.run; Wipe.run is    *)
(* cut at its _wipe_storage and _verify_zero_samples calls.  Wipe.method   *)
(* and Wipe.seed are stored by the constructor and never read, so they are *)
(* not part of the state.  Every storage unit has a path of its own, none  *)
(* of them inside the working directory.  Under Spec the writes of the log *)
(* succeed; under SpecIO a write of the log may fail and Session.run may   *)
(* be called again on the same Session.  SpecTamper follows a Wipe with a  *)
(* byte written from outside and a direct verification, SpecPipeline is a  *)
(* Pipeline built and validated by its owner, and SpecTwo runs a second    *)
(* Session beside the first.  SpecLoop takes the overwrite loop of         *)
(* _wipe_storage one write at a time.  SpecScore and SpecDmn are the       *)
(* scoring functions and the commands of dmn_security_lab.py.              *)
(***************************************************************************)
EXTENDS Integers, Sequences, FiniteSets, TLC

VARIABLES
    pipeline,   \* Pipeline.tasks: the list handed to Session.run
    device,     \* Session.device: [id, storage, created_at]
    fs,         \* backing files of the storage units: path -> [exists, data]
    wfiles,     \* files of the working directory other than the log
    log,        \* lines of <workdir>/log.jsonl
    prev,       \* Logger._prev
    now,        \* last value time.time() returned
    pc,         \* position of Session.run (and of Wipe.run inside it)
    i,          \* index of the current task in pipeline.tasks (1-based)
    u,          \* index of the current storage unit in Wipe.run (1-based)
    artifacts,  \* local list `artifacts` of Session.run
    art,        \* Artifact returned by the current task.run
    exc,        \* exception raised by the current task.run
    result,     \* what the caller of Session.run received
    invoked,    \* history: indexes of the tasks whose run was invoked
    runs,       \* number of Session.run calls started on this Session
    ustate,     \* history: where Wipe.run stands with each storage unit
    sent,       \* history: the lines each Logger has written, in order
    sb,         \* a second Session: its pipeline, Logger and position
    log2,       \* lines of the log.jsonl of another working directory
    verdict,    \* outcome of the last validate() or _verify_zero_samples()
                \* a caller made directly
    flipped,    \* history: the byte a third party set after the wipe
    dmn,        \* dmn_security_lab.py: its files, the exit status of the last
                \* command and the last direct call of a scoring function
    wcall       \* a _wipe_storage call made directly: its position, the open
                \* file f, the local `remaining` and the writes made so far

(* the state outside the first Session and its run *)
harness == <<sb, log2, verdict, flipped, dmn, wcall>>

(* the first Session but for its pipeline, its Logger and the backing files *)
runvars == <<device, wfiles, now, pc, i, u, artifacts, art, exc, result, invoked,
             runs, ustate>>

vars == <<pipeline, device, fs, wfiles, log, prev, now, pc, i, u, artifacts,
          art, exc, result, invoked, runs, ustate, sent, harness>>

----------------------------------------------------------------------------
(* Bounds of the model *)

MaxTasks == 3      \* longest pipeline
MaxUnits == 2      \* most storage units of a device
MaxSize == 3       \* largest size_bytes
MaxFileLen == 3    \* longest backing file, in bytes
MaxTs == 1         \* latest clock reading
MaxRuns == 2       \* most Session.run calls on one Session
MaxEvents == 4     \* most events in the logs of dmn_security_lab.py

(* The 1 MiB chunk of _wipe_storage, scaled to the sizes of the model. *)
ChunkLen == 2

Byte == {0, 1}
Transports == {"file", "sata"}
Workdir == "wd"

Min2(a, b) == IF a < b THEN a ELSE b

SeqsUpTo(S, n) == UNION {[1..k -> S] : k \in 0..n}

RECURSIVE Zeros(_)
Zeros(n) == IF n <= 0 THEN <<>> ELSE <<0>> \o Zeros(n - 1)

----------------------------------------------------------------------------
(* errors.py *)

NoExc == [type |-> "None", code |-> "", hint |-> "", recoverable |-> FALSE]

ReuseKitError(code, hint, recoverable) ==
    [type |-> "ReuseKitError", code |-> code, hint |-> hint,
     recoverable |-> recoverable]

BuiltinError(type, hint) ==
    [type |-> type, code |-> "", hint |-> hint, recoverable |-> FALSE]

(* repr(exc) *)
Repr(e) == <<e.type, e.code, e.hint>>

----------------------------------------------------------------------------
(* models.py, tasks/base.py: the values a pipeline can hold *)

NoAttr == "<no attribute>"

TaskObj(cls, name, verify, samples) ==
    [cls |-> cls, name |-> name, verify |-> verify, samples |-> samples]

Wipe(verify, samples) == TaskObj("Wipe", "wipe", verify, samples)
Inventory == TaskObj("Inventory", "inventory", FALSE, 0)
Task(name) == TaskObj("Task", name, FALSE, 0)
NotATask == TaskObj("object", NoAttr, FALSE, 0)

(* an object of a class of its own, with a name and a run(session) method,
   that does not derive from Task *)
Duck == TaskObj("Duck", "duck", FALSE, 0)

Storage(name, path, size_bytes, transport) ==
    [name |-> name, path |-> path, size_bytes |-> size_bytes,
     transport |-> transport]

Artifact(kind, path, sha256) ==
    [kind |-> kind, path |-> path, sha256 |-> sha256, created_at |-> "t0"]

NoArtifact == Artifact("", <<>>, <<>>)

(* mutant: hasattr(t, "run") *)
IsTaskStructural(t) == t.cls \in {"Task", "Wipe", "Inventory", "Duck"}

(* isinstance(t, Task) *)
IsTask(t) == t.cls \in {"Task", "Wipe", "Inventory"}

(* getattr(t, "name", default) *)
GetName(t, default) == IF t.name = NoAttr THEN default ELSE t.name

----------------------------------------------------------------------------
(* logging.py *)

Sha256(bytes) == <<"sha256", bytes>>

(* json.dumps(payload, separators=(",", ":")): fields in insertion order *)
Serialize(ts, kind, data, p) == <<ts, kind, data, p>>

LineTs(line) == line[1]
LineKind(line) == line[2]
LineData(line) == line[3]
LinePrev(line) == line[4]

(* mutant: the cursor starts at the hash of the last line the file holds *)
InitCursorFromFile(file) == IF file = <<>> THEN <<>> ELSE Sha256(file[Len(file)])

(* Logger.__init__: self._prev = "", whatever the file at the path holds *)
InitCursor(file) == <<>>

(* self._prev = h, which the code sets before it opens the file *)
NextCursor(cursor, line, written) == Sha256(line)

(* mutant: the file is opened with "w" *)
eventTruncating(kind, data, written) ==
    \E ts \in now..Min2(now + 1, MaxTs) :
        LET line == Serialize(ts, kind, data, prev)
        IN  /\ now' = ts
            /\ prev' = NextCursor(prev, line, written)
            /\ log' = IF written THEN <<line>> ELSE log
            /\ sent' = IF written THEN [sent EXCEPT !.A = Append(@, line)] ELSE sent

(* Logger.event; `written` tells whether open/write/flush succeeded *)
event(kind, data, written) ==
    \E ts \in now..Min2(now + 1, MaxTs) :
        LET line == Serialize(ts, kind, data, prev)
        IN  /\ now' = ts
            /\ prev' = NextCursor(prev, line, written)
            /\ log' = IF written THEN Append(log, line) ELSE log
            /\ sent' = IF written THEN [sent EXCEPT !.A = Append(@, line)] ELSE sent

----------------------------------------------------------------------------
(* pipeline.py *)

(* mutant: only the first element is looked at *)
validateFirstOnly(tasks) ==
    IF tasks = <<>>
    THEN ReuseKitError("EMPTY_PIPELINE", "add at least one task", TRUE)
    ELSE IF ~IsTask(tasks[1])
    THEN ReuseKitError("INVALID_TASK", "index 0 is not a Task", FALSE)
    ELSE IF GetName(tasks[1], "") = ""
    THEN ReuseKitError("MISSING_TASK_NAME", "index 0", FALSE)
    ELSE NoExc

(* mutant: the last offending element is the one reported *)
FirstBadLast(tasks) ==
    LET bad == {k \in 1..Len(tasks) :
                    ~IsTask(tasks[k]) \/ GetName(tasks[k], "") = ""}
    IN  IF bad = {} THEN 0 ELSE CHOOSE k \in bad : \A m \in bad : k >= m

(* the index (1-based) at which the for loop of validate raises, 0 if none *)
FirstBad(tasks) ==
    LET bad == {k \in 1..Len(tasks) :
                    ~IsTask(tasks[k]) \/ GetName(tasks[k], "") = ""}
    IN  IF bad = {} THEN 0 ELSE CHOOSE k \in bad : \A m \in bad : k <= m

(* mutant: the empty pipeline is refused without `recoverable=True` *)
validateEmptyFatal(tasks) ==
    IF tasks = <<>>
    THEN ReuseKitError("EMPTY_PIPELINE", "add at least one task", FALSE)
    ELSE LET k == FirstBad(tasks)
         IN  IF k = 0 THEN NoExc
             ELSE IF ~IsTask(tasks[k])
                  THEN ReuseKitError("INVALID_TASK",
                           "index " \o ToString(k - 1) \o " is not a Task", FALSE)
                  ELSE ReuseKitError("MISSING_TASK_NAME",
                           "index " \o ToString(k - 1), FALSE)

(* Pipeline.validate: the exception raised (NoExc if none) *)
validate(tasks) ==
    IF tasks = <<>>
    THEN ReuseKitError("EMPTY_PIPELINE", "add at least one task", TRUE)
    ELSE LET k == FirstBad(tasks)
         IN  IF k = 0 THEN NoExc
             ELSE IF ~IsTask(tasks[k])
                  THEN ReuseKitError("INVALID_TASK",
                           "index " \o ToString(k - 1) \o " is not a Task", FALSE)
                  ELSE ReuseKitError("MISSING_TASK_NAME",
                           "index " \o ToString(k - 1), FALSE)

----------------------------------------------------------------------------
(* tasks/wipe.py *)

(* mutant: a list of refused transports instead of the one admitted *)
GateBlocksBlacklist(st) == st.transport \in {"nvme", "usb"}

(* the safety gate of _wipe_storage *)
GateBlocks(st) == st.transport # "file"

(* f.write(bytes) at offset pos of a file opened "r+b" *)
WriteAt(data, pos, bytes) ==
    SubSeq(data, 1, pos) \o bytes \o SubSeq(data, pos + Len(bytes) + 1, Len(data))

(* mutant: every write is a whole chunk *)
ChunkSizeFull(remaining) == ChunkLen

(* n = min(len(chunk), remaining) *)
ChunkSize(remaining) == Min2(ChunkLen, remaining)

(* mutant: `while remaining >= len(chunk)`, the last partial chunk is skipped *)
RECURSIVE WriteLoopWholeChunks(_, _, _)
WriteLoopWholeChunks(data, pos, remaining) ==
    IF remaining >= ChunkLen
    THEN WriteLoopWholeChunks(WriteAt(data, pos, Zeros(ChunkLen)), pos + ChunkLen,
                              remaining - ChunkLen)
    ELSE data

(* the while loop of _wipe_storage, from f.seek(0) on *)
RECURSIVE WriteLoop(_, _, _)
WriteLoop(data, pos, remaining) ==
    IF remaining > 0
    THEN LET n == ChunkSize(remaining)
         IN  WriteLoop(WriteAt(data, pos, Zeros(n)), pos + n, remaining - n)
    ELSE data

(* Wipe._wipe_storage: the exception raised (NoExc if none) and the file left *)
wipe_storage(st, file) ==
    IF GateBlocks(st)
    THEN [exc |-> ReuseKitError("WRITE_BLOCKED", "transport " \o st.transport, FALSE),
          file |-> file]
    ELSE IF ~file.exists
    THEN [exc |-> BuiltinError("FileNotFoundError", st.path), file |-> file]
    ELSE [exc |-> NoExc,
          file |-> [file EXCEPT !.data = WriteLoop(file.data, 0, st.size_bytes)]]

(* mutant: f.read(st.size_bytes), the extent alone is read *)
verify_zero_extent(st, file) ==
    IF ~file.exists THEN BuiltinError("FileNotFoundError", st.path)
    ELSE IF \E k \in 1..Min2(Len(file.data), st.size_bytes) : file.data[k] # 0
    THEN ReuseKitError("VERIFY_MISMATCH", "non-zero byte detected", FALSE)
    ELSE NoExc

(* mutant: one window at the start of the unit is read *)
verify_zero_window(st, file) ==
    IF ~file.exists THEN BuiltinError("FileNotFoundError", st.path)
    ELSE IF Len(file.data) > 0 /\ file.data[1] # 0
    THEN ReuseKitError("VERIFY_MISMATCH", "non-zero byte detected", FALSE)
    ELSE NoExc

(* Wipe._verify_zero_samples: reads the whole file *)
verify_zero_samples(st, file) ==
    IF ~file.exists THEN BuiltinError("FileNotFoundError", st.path)
    ELSE IF \E k \in 1..Len(file.data) : file.data[k] # 0
    THEN ReuseKitError("VERIFY_MISMATCH", "non-zero byte detected", FALSE)
    ELSE NoExc

(* mutant: `if self.verify and self.samples > 0` *)
NeedsVerifyPositive(task) == task.verify /\ task.samples > 0

(* `if self.verify and self.samples` *)
NeedsVerify(task) == task.verify /\ task.samples # 0

WipeReport == <<"status", "ok">>

(* tasks/inventory.py: the facts written to inventory.json *)
Facts(dev) ==
    <<"id", dev.id, "storage", [k \in 1..Len(dev.storage) |-> dev.storage[k].name]>>

----------------------------------------------------------------------------
(* session.py *)

(* mutant: the log is opened relative to the current directory *)
LogPathRelative(workdir) == <<".", "log.jsonl">>

(* Session.__init__: self.workdir / "log.jsonl" *)
LogPath(workdir) == <<workdir, "log.jsonl">>

NoResult == [kind |-> "none", artifacts |-> <<>>, exc |-> NoExc]
Returned(arts) == [kind |-> "returned", artifacts |-> arts, exc |-> NoExc]
Raised(e) == [kind |-> "raised", artifacts |-> <<>>, exc |-> e]

(* name = getattr(task, "name", task.__class__.__name__) *)
TaskName(task) == GetName(task, task.cls)

(* mutant: the failure is wrapped before it is raised again *)
ReraiseWrapped(e) == ReuseKitError("TASK_FAILED", e.code, FALSE)

(* the bare `raise` of the except branch: the exception the caller receives *)
Reraise(e) == e

(* mutant: the loop stops one task early *)
LoopPcOffByOne(k, n) == IF k + 1 < n THEN "task_start" ELSE "return"

(* where the for loop stands once task k of n is over *)
LoopPc(k, n) == IF k < n THEN "task_start" ELSE "return"

(* mutant: the except branch logs and goes on with the next task *)
PcAfterErrorContinue(k, n) == LoopPc(k, n)

(* the except branch ends in `raise`: the loop is left *)
PcAfterError(k, n) == "raise"

(* the else branch of the try *)
PcAfterSuccess == "task_end"

(* mutant: the report is written with the last unit still to do *)
WipePcEarly(k, n) == IF k + 1 < n THEN "wipe_storage" ELSE "report"

(* the for loop of Wipe.run once unit k of n is over *)
WipePc(k, n) == IF k < n THEN "wipe_storage" ELSE "report"

Cur == pipeline[i]
Unit == device.storage[u]

(* Session.run is called: pipeline.validate(), then artifacts = [] *)
run(maxRuns) ==
    /\ pc \in {"idle", "done"}
    /\ runs < maxRuns
    /\ runs' = runs + 1
    /\ LET e == validate(pipeline)
       IN  IF e # NoExc
           THEN /\ pc' = "done"
                /\ result' = Raised(e)
                /\ i' = 0
           ELSE /\ pc' = LoopPc(0, Len(pipeline))
                /\ result' = NoResult
                /\ i' = 1
    /\ artifacts' = <<>>
    /\ invoked' = <<>>
    /\ art' = NoArtifact
    /\ exc' = NoExc
    /\ u' = 0
    /\ UNCHANGED <<harness, pipeline, device, fs, wfiles, log, prev, now, ustate, sent>>

(* mutant: the task_start record carries the class name of the task *)
TaskStartClassName ==
    /\ pc = "task_start"
    /\ event("task_start", <<Cur.cls>>, TRUE)
    /\ pc' = "task_run"
    /\ UNCHANGED <<harness, pipeline, device, fs, wfiles, i, u, artifacts, art, exc,
                   result, invoked, runs, ustate>>

(* self._logger.event("task_start", {"name": name}) *)
TaskStart ==
    /\ pc = "task_start"
    /\ event("task_start", <<TaskName(Cur)>>, TRUE)
    /\ pc' = "task_run"
    /\ UNCHANGED <<harness, pipeline, device, fs, wfiles, i, u, artifacts, art, exc,
                   result, invoked, runs, ustate>>

(* mutant: Wipe.run looks at the transport of every unit before it writes *)
TaskRunGateUpFront ==
    /\ pc = "task_run"
    /\ invoked' = Append(invoked, i)
    /\ CASE Cur.cls = "Inventory" ->
              /\ wfiles' = [wfiles EXCEPT !["inventory.json"] = Facts(device)]
              /\ art' = Artifact("inventory", <<Workdir, "inventory.json">>,
                                 Sha256(Facts(device)))
              /\ pc' = PcAfterSuccess
              /\ UNCHANGED <<exc, u, ustate>>
         [] Cur.cls = "Wipe" ->
              LET blocked == {k \in 1..Len(device.storage) :
                                 GateBlocks(device.storage[k])}
              IN  IF blocked = {}
                  THEN /\ u' = 1
                       /\ pc' = WipePc(0, Len(device.storage))
                       /\ ustate' = [k \in DOMAIN ustate |-> "NotStarted"]
                       /\ UNCHANGED <<wfiles, art, exc>>
                  ELSE LET j == CHOOSE k \in blocked : \A m \in blocked : k <= m
                       IN  /\ u' = j
                           /\ pc' = "task_error"
                           /\ exc' = wipe_storage(device.storage[j],
                                                  fs[device.storage[j].path]).exc
                           /\ ustate' = [k \in DOMAIN ustate |->
                                           IF k = j THEN "Blocked" ELSE "NotStarted"]
                           /\ UNCHANGED <<wfiles, art>>
         [] Cur.cls = "Task" ->
              /\ exc' = BuiltinError("NotImplementedError", "")
              /\ pc' = "task_error"
              /\ UNCHANGED <<wfiles, art, u, ustate>>
         [] OTHER ->
              /\ exc' = BuiltinError("AttributeError", "run")
              /\ pc' = "task_error"
              /\ UNCHANGED <<wfiles, art, u, ustate>>
    /\ UNCHANGED <<harness, pipeline, device, fs, log, prev, now, i, artifacts, result,
                   runs, sent>>

(* art = task.run(self), for every task but Wipe, whose run takes steps *)
TaskRun ==
    /\ pc = "task_run"
    /\ invoked' = Append(invoked, i)
    /\ CASE Cur.cls = "Inventory" ->
              /\ wfiles' = [wfiles EXCEPT !["inventory.json"] = Facts(device)]
              /\ art' = Artifact("inventory", <<Workdir, "inventory.json">>,
                                 Sha256(Facts(device)))
              /\ pc' = PcAfterSuccess
              /\ UNCHANGED <<exc, u, ustate>>
         [] Cur.cls = "Wipe" ->
              /\ u' = 1
              /\ pc' = WipePc(0, Len(device.storage))
              /\ ustate' = [k \in DOMAIN ustate |-> "NotStarted"]
              /\ UNCHANGED <<wfiles, art, exc>>
         [] Cur.cls = "Task" ->
              /\ exc' = BuiltinError("NotImplementedError", "")
              /\ pc' = "task_error"
              /\ UNCHANGED <<wfiles, art, u, ustate>>
         [] OTHER ->
              /\ exc' = BuiltinError("AttributeError", "run")
              /\ pc' = "task_error"
              /\ UNCHANGED <<wfiles, art, u, ustate>>
    /\ UNCHANGED <<harness, pipeline, device, fs, log, prev, now, i, artifacts, result,
                   runs, sent>>

(* Wipe.run: self._wipe_storage(st) is entered for the current unit and
   checks the transport *)
WipeStorage ==
    /\ pc = "wipe_storage"
    /\ LET r == wipe_storage(Unit, fs[Unit.path])
       IN  IF GateBlocks(Unit)
           THEN /\ exc' = r.exc
                /\ pc' = "task_error"
                /\ ustate' = [ustate EXCEPT ![u] = "Blocked"]
           ELSE /\ exc' = exc
                /\ pc' = "wiping"
                /\ ustate' = [ustate EXCEPT ![u] = "Wiping"]
    /\ UNCHANGED <<harness, pipeline, device, fs, wfiles, log, prev, now, i, u,
                   artifacts, art, result, invoked, runs, sent>>

(* mutant: the loop moves to the next unit with the verification of this
   one still to come *)
WipeWriteNoWait ==
    /\ pc = "wiping"
    /\ LET r == wipe_storage(Unit, fs[Unit.path])
       IN  /\ fs' = [fs EXCEPT ![Unit.path] = r.file]
           /\ exc' = r.exc
           /\ IF r.exc # NoExc
              THEN pc' = "task_error" /\ u' = u /\ ustate' = ustate
              ELSE /\ pc' = WipePc(u, Len(device.storage))
                   /\ u' = u + 1
                   /\ ustate' = [ustate EXCEPT ![u] =
                                    IF NeedsVerify(Cur) THEN "Verifying" ELSE "Done"]
    /\ UNCHANGED <<harness, pipeline, device, wfiles, log, prev, now, i, artifacts, art,
                   result, invoked, runs, sent>>

(* _wipe_storage past the check: open, overwrite, flush, fsync *)
WipeWrite ==
    /\ pc = "wiping"
    /\ LET r == wipe_storage(Unit, fs[Unit.path])
       IN  /\ fs' = [fs EXCEPT ![Unit.path] = r.file]
           /\ exc' = r.exc
           /\ IF r.exc # NoExc
              THEN pc' = "task_error" /\ u' = u /\ ustate' = ustate
              ELSE IF NeedsVerify(Cur)
              THEN /\ pc' = "verify"
                   /\ u' = u
                   /\ ustate' = [ustate EXCEPT ![u] = "Verifying"]
              ELSE /\ pc' = WipePc(u, Len(device.storage))
                   /\ u' = u + 1
                   /\ ustate' = [ustate EXCEPT ![u] = "Done"]
    /\ UNCHANGED <<harness, pipeline, device, wfiles, log, prev, now, i, artifacts, art,
                   result, invoked, runs, sent>>

(* mutant: a mismatch is recorded and the loop goes on with the next unit *)
VerifyUnitContinue ==
    /\ pc = "verify"
    /\ LET e == verify_zero_samples(Unit, fs[Unit.path])
       IN  /\ exc' = e
           /\ pc' = WipePc(u, Len(device.storage))
           /\ u' = u + 1
           /\ ustate' = [ustate EXCEPT ![u] = "Done"]
    /\ UNCHANGED <<harness, pipeline, device, fs, wfiles, log, prev, now, i, artifacts,
                   art, result, invoked, runs, sent>>

(* mutant: the Storage record of a verified unit is marked *)
VerifyUnitMarking ==
    /\ pc = "verify"
    /\ LET e == verify_zero_samples(Unit, fs[Unit.path])
       IN  /\ exc' = e
           /\ IF e # NoExc
              THEN pc' = "task_error" /\ u' = u /\ ustate' = ustate /\ device' = device
              ELSE /\ pc' = WipePc(u, Len(device.storage))
                   /\ u' = u + 1
                   /\ ustate' = [ustate EXCEPT ![u] = "Done"]
                   /\ device' = [device EXCEPT !.storage[u].transport = "verified"]
    /\ UNCHANGED <<harness, pipeline, fs, wfiles, log, prev, now, i, artifacts,
                   art, result, invoked, runs, sent>>

(* Wipe.run: self._verify_zero_samples(st) for the current unit *)
VerifyUnit ==
    /\ pc = "verify"
    /\ LET e == verify_zero_samples(Unit, fs[Unit.path])
       IN  /\ exc' = e
           /\ IF e # NoExc
              THEN pc' = "task_error" /\ u' = u /\ ustate' = ustate
              ELSE /\ pc' = WipePc(u, Len(device.storage))
                   /\ u' = u + 1
                   /\ ustate' = [ustate EXCEPT ![u] = "Done"]
    /\ UNCHANGED <<harness, pipeline, device, fs, wfiles, log, prev, now, i, artifacts,
                   art, result, invoked, runs, sent>>

(* Wipe.run: the report file and the Artifact returned *)
WipeReportStep ==
    /\ pc = "report"
    /\ wfiles' = [wfiles EXCEPT !["wipe.json"] = WipeReport]
    /\ art' = Artifact("wipe_report", <<Workdir, "wipe.json">>, Sha256(WipeReport))
    /\ pc' = PcAfterSuccess
    /\ UNCHANGED <<harness, pipeline, device, fs, log, prev, now, i, u, artifacts, exc,
                   result, invoked, runs, ustate, sent>>

(* mutant: the Artifact is put at the front of the list *)
TaskEndPrepend ==
    /\ pc = "task_end"
    /\ artifacts' = <<art>> \o artifacts
    /\ event("task_end", <<TaskName(Cur), art.path>>, TRUE)
    /\ pc' = LoopPc(i, Len(pipeline))
    /\ i' = i + 1
    /\ UNCHANGED <<harness, pipeline, device, fs, wfiles, u, art, exc, result, invoked,
                   runs, ustate>>

(* mutant: the task_end event is not emitted *)
TaskEndNoLog ==
    /\ pc = "task_end"
    /\ artifacts' = Append(artifacts, art)
    /\ pc' = LoopPc(i, Len(pipeline))
    /\ i' = i + 1
    /\ UNCHANGED <<harness, pipeline, device, fs, wfiles, log, prev, now, u, art, exc,
                   result, invoked, runs, ustate, sent>>

(* the else branch: artifacts.append(art), event("task_end", ...) *)
TaskEnd ==
    /\ pc = "task_end"
    /\ artifacts' = Append(artifacts, art)
    /\ event("task_end", <<TaskName(Cur), art.path>>, TRUE)
    /\ pc' = LoopPc(i, Len(pipeline))
    /\ i' = i + 1
    /\ UNCHANGED <<harness, pipeline, device, fs, wfiles, u, art, exc, result, invoked,
                   runs, ustate>>

(* mutant: the except branch raises without logging *)
TaskErrorSilent ==
    /\ pc = "task_error"
    /\ pc' = PcAfterError(i, Len(pipeline))
    /\ UNCHANGED <<harness, pipeline, device, fs, wfiles, log, prev, now, i, u, artifacts,
                   art, exc, result, invoked, runs, ustate, sent>>

(* the except branch: event("task_error", ...) *)
TaskError ==
    /\ pc = "task_error"
    /\ event("task_error", <<TaskName(Cur), Repr(exc)>>, TRUE)
    /\ pc' = PcAfterError(i, Len(pipeline))
    /\ i' = IF pc' = "raise" THEN i ELSE i + 1
    /\ UNCHANGED <<harness, pipeline, device, fs, wfiles, u, artifacts, art, exc,
                   result, invoked, runs, ustate>>

(* `return artifacts` *)
Return ==
    /\ pc = "return"
    /\ result' = Returned(artifacts)
    /\ pc' = "done"
    /\ UNCHANGED <<harness, pipeline, device, fs, wfiles, log, prev, now, i, u, artifacts,
                   art, exc, invoked, runs, ustate, sent>>

(* `raise`: the exception leaves Session.run, whose locals are gone *)
Raise ==
    /\ pc = "raise"
    /\ result' = Raised(Reraise(exc))
    /\ pc' = "done"
    /\ UNCHANGED <<harness, pipeline, device, fs, wfiles, log, prev, now, i, u, artifacts,
                   art, exc, invoked, runs, ustate, sent>>

(* an event() of Session.run whose write fails: the OSError leaves run *)
LogWriteFails ==
    /\ pc \in {"task_start", "task_end", "task_error"}
    /\ \E kind \in {"task_start", "task_end", "task_error"} :
          /\ kind = pc
          /\ event(kind,
                   CASE kind = "task_start" -> <<TaskName(Cur)>>
                     [] kind = "task_end" -> <<TaskName(Cur), art.path>>
                     [] OTHER -> <<TaskName(Cur), Repr(exc)>>,
                   FALSE)
    /\ result' = Raised(BuiltinError("OSError", "log.jsonl"))
    /\ pc' = "done"
    /\ UNCHANGED <<harness, pipeline, device, fs, wfiles, i, u, artifacts, art, exc,
                   invoked, runs, ustate>>

----------------------------------------------------------------------------
(* The configurations a Session is constructed with *)

UnitName(k) == "disk" \o ToString(k)
UnitPath(k) == "/img/" \o ToString(k)

Sizes == -1..MaxSize
SampleCounts == {-1, 0, 1}

NoFile == [exists |-> FALSE, data |-> <<>>]
File(data) == [exists |-> TRUE, data |-> data]
Files == {NoFile} \cup {File(d) : d \in SeqsUpTo(Byte, MaxFileLen)}

Shape(size, file) == [size |-> size, file |-> file]

(* every size against every file content *)
AllShapes == {Shape(n, f) : n \in Sizes, f \in Files}

(* file as long as, longer than and shorter than the extent; already zero *)
FewShapes == {Shape(1, File(<<1>>)), Shape(1, File(<<1, 1>>)),
              Shape(2, File(<<1>>)), Shape(1, File(<<0>>))}

Unit1(shape, transport) == [shape |-> shape, transport |-> transport]

UnitLists(shapes, n) ==
    SeqsUpTo({Unit1(sh, t) : sh \in shapes, t \in Transports}, n)

DeviceOf(units) ==
    [id |-> "dev1",
     storage |-> [k \in 1..Len(units) |->
                    Storage(UnitName(k), UnitPath(k), units[k].shape.size,
                            units[k].transport)],
     created_at |-> "t0"]

FsOf(units) ==
    [p \in {UnitPath(k) : k \in 1..Len(units)} |->
        units[CHOOSE k \in 1..Len(units) : UnitPath(k) = p].shape.file]

Elements == {Inventory, Wipe(FALSE, 0), Wipe(TRUE, 1), Task("job"), Task(""),
             NotATask}

(* pipelines of every kind over a device of at most one unit *)
SessionConfigs ==
    {[tasks |-> ts, units |-> us] :
        ts \in SeqsUpTo(Elements, MaxTasks), us \in UnitLists(FewShapes, 1)}

(* one Wipe of every configuration over devices of every kind *)
WipeConfigs ==
    {[tasks |-> <<Wipe(v, s)>>, units |-> us] :
        v \in BOOLEAN, s \in SampleCounts,
        us \in UnitLists(AllShapes, 1) \cup UnitLists(FewShapes, MaxUnits)}

Configs == SessionConfigs \cup WipeConfigs

(* short pipelines, for the runs that are repeated on one Session *)
RerunConfigs ==
    {[tasks |-> ts, units |-> us] :
        ts \in SeqsUpTo({Inventory, Wipe(TRUE, 1), Task("job"), Task("")}, 2),
        us \in UnitLists(FewShapes, 1)}

(* no direct call has been made *)
NoVerdict == [of |-> "none", on |-> <<>>, exc |-> NoExc, before |-> ""]

(* dmn_security_lab.py has not been used: no state file, no log file *)
NoDmn == [state |-> <<>>, jsonl |-> <<>>, csv |-> <<>>, started |-> 0,
          last |-> [cmd |-> "none", exit |-> 0],
          call |-> [of |-> "none", args |-> <<>>, ret |-> <<>>, before |-> <<>>]]

(* _wipe_storage has not been called directly *)
NoCall == [pc |-> "none", unit |-> 0, pos |-> 0, remaining |-> 0, data |-> <<>>,
           writes |-> <<>>, before |-> <<>>, exc |-> NoExc]

(* no second Session has been constructed *)
NoSession == [pipeline |-> <<>>, path |-> "", pc |-> "none", i |-> 0, prev |-> <<>>,
              exc |-> NoExc]

InitWith(configs) ==
    /\ \E c \in configs :
          /\ pipeline = c.tasks
          /\ device = DeviceOf(c.units)
          /\ fs = FsOf(c.units)
    /\ wfiles = [f \in {"wipe.json", "inventory.json"} |-> <<>>]
    /\ log = <<>>
    /\ prev = <<>>
    /\ now = 0
    /\ pc = "idle"
    /\ i = 0
    /\ u = 0
    /\ artifacts = <<>>
    /\ art = NoArtifact
    /\ exc = NoExc
    /\ result = NoResult
    /\ invoked = <<>>
    /\ runs = 0
    /\ ustate = [k \in 1..Len(device.storage) |-> "NotStarted"]
    /\ sent = [A |-> <<>>, B |-> <<>>]
    /\ log2 = <<>>
    /\ verdict = NoVerdict
    /\ flipped = <<>>
    /\ dmn = NoDmn
    /\ wcall = NoCall

Init == InitWith(Configs) /\ sb = NoSession

InitIO == InitWith(RerunConfigs) /\ sb = NoSession

Next ==
    \/ run(1)
    \/ TaskStart
    \/ TaskRun
    \/ WipeStorage
    \/ WipeWrite
    \/ VerifyUnit
    \/ WipeReportStep
    \/ TaskEnd
    \/ TaskError
    \/ Return
    \/ Raise

(* one run of a fresh Session whose log writes succeed *)
Spec == Init /\ [][Next]_vars

NextIO ==
    \/ run(MaxRuns)
    \/ TaskStart
    \/ TaskRun
    \/ WipeStorage
    \/ WipeWrite
    \/ VerifyUnit
    \/ WipeReportStep
    \/ TaskEnd
    \/ TaskError
    \/ Return
    \/ Raise
    \/ LogWriteFails

(* up to MaxRuns runs of one Session whose log writes may fail *)
SpecIO == InitIO /\ [][NextIO]_vars

----------------------------------------------------------------------------
(* A second Session, B, constructed and run while the first, A, runs; its
   working directory is that of A or another one *)

Workdirs == {Workdir, "wd2"}

(* the device of B: no storage unit *)
DeviceB == DeviceOf(<<>>)

(* Session(DeviceB, workdir): a Logger of its own on workdir/log.jsonl *)
NewSession(workdir, tasks) ==
    /\ sb = NoSession
    /\ sb' = [pipeline |-> tasks, path |-> workdir, pc |-> "idle", i |-> 0,
              prev |-> InitCursor(IF LogPath(workdir) = LogPath(Workdir)
                                  THEN log ELSE log2),
              exc |-> NoExc]
    /\ UNCHANGED <<runvars, pipeline, fs, log, prev, sent, log2, verdict, flipped, dmn, wcall>>

(* Logger.event of B, whose run then stands at pc2 with task index i2 *)
eventB(kind, data, pc2, i2) ==
    \E ts \in now..Min2(now + 1, MaxTs) :
        LET line == Serialize(ts, kind, data, sb.prev)
        IN  /\ now' = ts
            /\ sb' = [sb EXCEPT !.prev = NextCursor(sb.prev, line, TRUE),
                                !.pc = pc2, !.i = i2]
            /\ IF LogPath(sb.path) = LogPath(Workdir)
               THEN log' = Append(log, line) /\ log2' = log2
               ELSE log2' = Append(log2, line) /\ log' = log
            /\ sent' = [sent EXCEPT !.B = Append(@, line)]

(* B.run(pipeline): pipeline.validate() *)
RunB ==
    /\ sb.pc = "idle"
    /\ LET e == validate(sb.pipeline)
       IN  sb' = IF e # NoExc
                 THEN [sb EXCEPT !.pc = "done", !.exc = e]
                 ELSE [sb EXCEPT !.pc = LoopPc(0, Len(sb.pipeline)), !.i = 1]
    /\ UNCHANGED <<runvars, pipeline, fs, log, prev, sent, log2, verdict, flipped, dmn, wcall>>

(* B: event("task_start", ...) *)
TaskStartB ==
    /\ sb.pc = "task_start"
    /\ eventB("task_start", <<TaskName(sb.pipeline[sb.i])>>, "task_run", sb.i)
    /\ UNCHANGED <<device, wfiles, pc, i, u, artifacts, art, exc, result, invoked,
                   runs, ustate, pipeline, fs, prev, verdict, flipped, dmn, wcall>>

(* B: task.run(self); Inventory writes inventory.json into the workdir of B *)
TaskRunB ==
    /\ sb.pc = "task_run"
    /\ IF sb.pipeline[sb.i].cls = "Inventory"
       THEN /\ sb' = [sb EXCEPT !.pc = PcAfterSuccess]
            /\ wfiles' = IF sb.path = Workdir
                          THEN [wfiles EXCEPT !["inventory.json"] = Facts(DeviceB)]
                          ELSE wfiles
       ELSE /\ sb' = [sb EXCEPT !.pc = "task_error",
                                !.exc = BuiltinError("NotImplementedError", "")]
            /\ wfiles' = wfiles
    /\ UNCHANGED <<device, now, pc, i, u, artifacts, art, exc, result, invoked,
                   runs, ustate, pipeline, fs, log, prev, sent, log2, verdict, flipped, dmn, wcall>>

(* B: event("task_end", ...) *)
TaskEndB ==
    /\ sb.pc = "task_end"
    /\ eventB("task_end",
              <<TaskName(sb.pipeline[sb.i]), <<sb.path, "inventory.json">> >>,
              LoopPc(sb.i, Len(sb.pipeline)), sb.i + 1)
    /\ UNCHANGED <<device, wfiles, pc, i, u, artifacts, art, exc, result, invoked,
                   runs, ustate, pipeline, fs, prev, verdict, flipped, dmn, wcall>>

(* B: event("task_error", ...), then `raise` *)
TaskErrorB ==
    /\ sb.pc = "task_error"
    /\ eventB("task_error", <<TaskName(sb.pipeline[sb.i]), Repr(sb.exc)>>,
              "done", sb.i)
    /\ UNCHANGED <<device, wfiles, pc, i, u, artifacts, art, exc, result, invoked,
                   runs, ustate, pipeline, fs, prev, verdict, flipped, dmn, wcall>>

(* B: `return artifacts` *)
ReturnB ==
    /\ sb.pc = "return"
    /\ sb' = [sb EXCEPT !.pc = "done"]
    /\ UNCHANGED <<runvars, pipeline, fs, log, prev, sent, log2, verdict, flipped, dmn, wcall>>

(* A runs a Wipe and at most one more task over one unit *)
TwoConfigs ==
    {[tasks |-> ts, units |-> <<Unit1(Shape(1, File(<<1>>)), "file")>>] :
        ts \in SeqsUpTo({Wipe(TRUE, 1), Task("job")}, 2)}

InitTwo == InitWith(TwoConfigs) /\ sb = NoSession

NextTwo ==
    \/ run(1)
    \/ TaskStart
    \/ TaskRun
    \/ WipeStorage
    \/ WipeWrite
    \/ VerifyUnit
    \/ WipeReportStep
    \/ TaskEnd
    \/ TaskError
    \/ Return
    \/ Raise
    \/ \E w \in Workdirs, ts \in SeqsUpTo({Inventory, Task("job")}, 1) :
          NewSession(w, ts)
    \/ RunB
    \/ TaskStartB
    \/ TaskRunB
    \/ TaskEndB
    \/ TaskErrorB
    \/ ReturnB

(* two Sessions, each run once, their steps interleaved in every way *)
SpecTwo == InitTwo /\ [][NextTwo]_vars

----------------------------------------------------------------------------
(* pipeline.py: a Pipeline built up and validated by its owner *)

PipeElements == {Inventory, Wipe(TRUE, 1), Task("job"), Task(""), NotATask, Duck}

(* Pipeline.add *)
add(task) ==
    /\ Len(pipeline) < MaxTasks
    /\ pipeline' = Append(pipeline, task)
    /\ UNCHANGED <<runvars, fs, log, prev, sent, harness>>

(* Pipeline.extend *)
extend(tasks) ==
    /\ Len(pipeline) + Len(tasks) <= MaxTasks
    /\ pipeline' = pipeline \o tasks
    /\ UNCHANGED <<runvars, fs, log, prev, sent, harness>>

(* mutant: the elements validate objects to are dropped from the list *)
CallValidateRepairing ==
    /\ verdict' = [of |-> "validate", on |-> pipeline, exc |-> validate(pipeline),
                   before |-> verdict.exc.code]
    /\ pipeline' = IF validate(pipeline) = NoExc \/ pipeline = <<>> THEN pipeline
                    ELSE SubSeq(pipeline, 1, FirstBad(pipeline) - 1)
    /\ UNCHANGED <<runvars, fs, log, prev, sent, sb, log2, flipped, dmn, wcall>>

(* pipeline.validate() called by the owner; `before` keeps the code of the
   error the call before this one raised *)
CallValidate ==
    /\ verdict' = [of |-> "validate", on |-> pipeline, exc |-> validate(pipeline),
                   before |-> verdict.exc.code]
    /\ UNCHANGED <<runvars, pipeline, fs, log, prev, sent, sb, log2, flipped, dmn, wcall>>

InitPipeline ==
    /\ InitWith({[tasks |-> ts, units |-> <<Unit1(Shape(1, File(<<1>>)), "file")>>] :
                    ts \in SeqsUpTo(PipeElements, 1)})
    /\ sb = NoSession

NextPipeline ==
    \/ \E t \in PipeElements : add(t)
    \/ \E ts \in SeqsUpTo(PipeElements, 2) : extend(ts)
    \/ CallValidate

(* a Pipeline that grows and is validated any number of times *)
SpecPipeline == InitPipeline /\ [][NextPipeline]_vars

----------------------------------------------------------------------------
(* tests/test_wipe.py: a Wipe that succeeded, then a byte written into a
   unit from outside, then _verify_zero_samples called directly *)

(* f.seek(pos - 1); f.write(b"\x01") on the file of unit k, opened "r+b" *)
FlipByte ==
    /\ pc = "done"
    /\ result.kind = "returned"
    /\ flipped = <<>>
    /\ \E k \in 1..Len(device.storage) :
          \E pos \in 1..Len(fs[device.storage[k].path].data) :
             /\ fs' = [fs EXCEPT ![device.storage[k].path].data =
                                     WriteAt(@, pos - 1, <<1>>)]
             /\ flipped' = <<k, pos>>
    /\ UNCHANGED <<runvars, pipeline, log, prev, sent, sb, log2, verdict, dmn, wcall>>

(* task._verify_zero_samples(st) on unit k, the task being the Wipe that ran *)
DirectVerify ==
    /\ pc = "done"
    /\ result.kind = "returned"
    /\ \E k \in 1..Len(device.storage) :
          verdict' = [of |-> "verify", on |-> <<k, flipped>>,
                      exc |-> verify_zero_samples(device.storage[k],
                                                  fs[device.storage[k].path]),
                      before |-> ""]
    /\ UNCHANGED <<runvars, pipeline, fs, log, prev, sent, sb, log2, flipped, dmn, wcall>>

InitTamper == InitWith(WipeConfigs) /\ sb = NoSession

NextTamper ==
    \/ run(1)
    \/ TaskStart
    \/ TaskRun
    \/ WipeStorage
    \/ WipeWrite
    \/ VerifyUnit
    \/ WipeReportStep
    \/ TaskEnd
    \/ TaskError
    \/ Return
    \/ Raise
    \/ FlipByte
    \/ DirectVerify

(* one Wipe run by a Session, then the units touched and verified by hand *)
SpecTamper == InitTamper /\ [][NextTamper]_vars

----------------------------------------------------------------------------
(* Wipe._wipe_storage called directly on a unit of the device, its while
   loop taken one f.write at a time *)

(* _wipe_storage(st) up to the loop: the transport check, open(st.path,
   "r+b"), remaining = st.size_bytes, f.seek(0) *)
CallWipeStorage ==
    /\ wcall.pc = "none"
    /\ \E k \in 1..Len(device.storage) :
          LET st == device.storage[k]
              file == fs[st.path]
          IN  wcall' =
                IF GateBlocks(st)
                THEN [wcall EXCEPT !.pc = "raised", !.unit = k,
                         !.exc = ReuseKitError("WRITE_BLOCKED",
                                               "transport " \o st.transport, FALSE)]
                ELSE IF ~file.exists
                THEN [wcall EXCEPT !.pc = "raised", !.unit = k,
                         !.exc = BuiltinError("FileNotFoundError", st.path)]
                ELSE [pc |-> "loop", unit |-> k, pos |-> 0,
                      remaining |-> st.size_bytes, data |-> file.data,
                      writes |-> <<>>, before |-> file.data, exc |-> NoExc]
    /\ UNCHANGED <<runvars, pipeline, fs, log, prev, sent, sb, log2, verdict, flipped,
                   dmn>>

(* one turn of `while remaining > 0`: n = min(len(chunk), remaining),
   f.write(chunk[:n]), remaining -= n *)
LoopWrite ==
    /\ wcall.pc = "loop"
    /\ wcall.remaining > 0
    /\ LET n == ChunkSize(wcall.remaining)
       IN  wcall' = [wcall EXCEPT
                        !.data = WriteAt(@, wcall.pos, Zeros(n)),
                        !.pos = @ + n,
                        !.remaining = @ - n,
                        !.writes = Append(@, [offset |-> wcall.pos, n |-> n])]
    /\ UNCHANGED <<runvars, pipeline, fs, log, prev, sent, sb, log2, verdict, flipped,
                   dmn>>

(* the loop is left: f.flush(), os.fsync(f.fileno()), the file is closed *)
LoopExit ==
    /\ wcall.pc = "loop"
    /\ ~(wcall.remaining > 0)
    /\ fs' = [fs EXCEPT ![device.storage[wcall.unit].path].data = wcall.data]
    /\ wcall' = [wcall EXCEPT !.pc = "returned"]
    /\ UNCHANGED <<runvars, pipeline, log, prev, sent, sb, log2, verdict, flipped, dmn>>

(* a device of one unit of every size over every file content *)
InitLoop ==
    /\ InitWith({[tasks |-> <<>>, units |-> <<Unit1(sh, t)>>] :
                    sh \in AllShapes, t \in {"file", "sata"}})
    /\ sb = NoSession

NextLoop ==
    \/ CallWipeStorage
    \/ LoopWrite
    \/ LoopExit

SpecLoop == InitLoop /\ [][NextLoop]_vars

(* the thread that made the call goes on running *)
SpecLoopFair == SpecLoop /\ WF_vars(NextLoop)

----------------------------------------------------------------------------
(* dmn_security_lab.py: scoring.  A float score is counted in units of
   1/6000, in which every value the code adds is a whole number; the
   rounding of the floating-point operations is not modelled.  A text is the
   sequence of its words, separated by single blanks. *)

(* Optional[...]: None and a value *)
None == <<>>
Some(x) == <<x>>
Val(v) == v[1]

(* the score 1.0 *)
One == 6000

MaxLatency == 1300   \* largest latency, in seconds

(* str.lower() on the strings of the model *)
Lower(str) ==
    CASE str \in {"Active", "ACTIVE"} -> "active"
      [] str \in {"Play", "PLAY"} -> "play"
      [] str \in {"Star", "STAR"} -> "star"
      [] OTHER -> str

Words == {"scrolling", "later", "maybe", "work", "why?"}

EndsInWordChar(w) == w # "why?"

(* PROCRAST_RE.search(text): \bscroll(ing)?\b anywhere; "\b later\b" needs a
   word character right before its blank ("maybe later" is such a case) *)
PROCRAST_RE(text) ==
    \E k \in 1..Len(text) :
        \/ text[k] = "scrolling"
        \/ text[k] = "later" /\ k > 1 /\ EndsInWordChar(text[k - 1])

(* DITHER_RE.search(text) *)
DITHER_RE(text) == \E k \in 1..Len(text) : text[k] = "maybe"

(* QMARK_RE.search(text) *)
QMARK_RE(text) == \E k \in 1..Len(text) : text[k] = "why?"

(* `if text:` for an Optional[str] *)
Truthy(text) == text # None /\ Val(text) # <<>>

(* mutant: the second segment of the curve ends at 0.9 instead of 0.8 *)
IdleHalfSteep(latency) ==
    IF latency >= 1200 THEN 3000
    ELSE IF latency >= 600 THEN 2400 + (latency - 600)
    ELSE IF latency >= 300 THEN 1800 + 3 * (latency - 300)
    ELSE 6 * latency

(* 0.5 * s for the idle curve s: 0.6 * (latency / 300), 0.6 + 0.2 *
   (latency - 300) / 300, 0.8 + 0.2 * (latency - 600) / 600, 1.0 *)
IdleHalf(latency) ==
    IF latency >= 1200 THEN 3000
    ELSE IF latency >= 600 THEN 2400 + (latency - 600)
    ELSE IF latency >= 300 THEN 1800 + 2 * (latency - 300)
    ELSE 6 * latency

Max2(a, b) == IF a > b THEN a ELSE b

(* score = max(0.0, min(1.0, score)) *)
Clamp(score) == Max2(0, Min2(One, score))

(* compute_dmn_proxy: the score and the reasons *)
compute_dmn_proxy(text, latency, output_wpm, input_wpm, integrity, marker) ==
    LET idle == latency # None /\ Val(latency) >= 0
        low == /\ output_wpm # None /\ input_wpm # None /\ Val(input_wpm) > 0
               /\ 2 * Val(output_wpm) < Max2(1, Val(input_wpm))
               /\ Val(output_wpm) < 20
        weak == integrity # None /\ Val(integrity) < 80
        nudge == marker # None /\ Val(marker) # ""
                    /\ Lower(Val(marker)) \in {"star", "!", "flag"}
        proc == Truthy(text) /\ PROCRAST_RE(Val(text))
        dith == Truthy(text) /\ DITHER_RE(Val(text))
        ques == Truthy(text) /\ QMARK_RE(Val(text))
        Add(cond, amount) == IF cond THEN amount ELSE 0
        Tag(cond, reason) == IF cond THEN <<reason>> ELSE <<>>
    IN  [score |-> Clamp(Add(idle, IF idle THEN IdleHalf(Val(latency)) ELSE 0)
                         + Add(proc, 1800) + Add(dith, 900) + Add(ques, 300)
                         + Add(low, 1200) + Add(weak, 1200) + Add(nudge, 300)),
         reasons |->
            Tag(idle /\ (IF idle THEN Val(latency) >= 60 ELSE FALSE), "idle")
            \o Tag(proc, "text:procrastination") \o Tag(dith, "text:dither")
            \o Tag(ques, "text:questioning") \o Tag(low, "low-o/i")
            \o Tag(weak, "low-integrity:n") \o Tag(nudge, "marker:nudge")]

(* mutant: the threshold of the score is 0.5 *)
apply_policy_half(mode, dmn_proxy, text, integrity) ==
    LET active == Lower(mode) = "active"
        high == active /\ dmn_proxy >= 3000
        proc == active /\ Truthy(text) /\ PROCRAST_RE(Val(text))
        weak == active /\ integrity # None /\ Val(integrity) < 80
    IN  [policy |-> IF high \/ proc \/ weak THEN "breach" ELSE "ok",
         reasons |-> (IF high THEN <<"dmn>=0.6">> ELSE <<>>)
                     \o (IF proc THEN <<"text:procrastination">> ELSE <<>>)
                     \o (IF weak THEN <<"low-integrity">> ELSE <<>>)]

(* apply_policy: the policy and the reasons; 0.6 is 3600 *)
apply_policy(mode, dmn_proxy, text, integrity) ==
    LET active == Lower(mode) = "active"
        high == active /\ dmn_proxy >= 3600
        proc == active /\ Truthy(text) /\ PROCRAST_RE(Val(text))
        weak == active /\ integrity # None /\ Val(integrity) < 80
    IN  [policy |-> IF high \/ proc \/ weak THEN "breach" ELSE "ok",
         reasons |-> (IF high THEN <<"dmn>=0.6">> ELSE <<>>)
                     \o (IF proc THEN <<"text:procrastination">> ELSE <<>>)
                     \o (IF weak THEN <<"low-integrity">> ELSE <<>>)]

(* the arguments the scoring functions are called with *)
Texts == {None} \cup {Some(t) : t \in SeqsUpTo(Words, 2)}
Latencies == {-1, 0, 1, 59, 60, 150, 299, 300, 301, 450, 599, 600, 601, 900,
              1199, 1200, 1201, MaxLatency}
Integrities == {None, Some(79), Some(80)}
Rates == {<<None, None>>, <<Some(10), Some(40)>>, <<Some(30), Some(40)>>,
          <<Some(10), Some(0)>>}
Markers == {None, Some("STAR"), Some("x")}
Modes == {"active", "Active", "ACTIVE", "play", "PLAY", "focus"}
Scores == {0, 3599, 3600, One}

LatencyOnly(args) ==
    /\ args[1] = None /\ args[3] = None /\ args[4] = None /\ args[5] = None
    /\ args[6] = None /\ args[2] # None

(* compute_dmn_proxy(...) called directly, once, or once more after a call
   that was given a latency and nothing else, which `before` then keeps *)
CallComputeDmnProxy ==
    /\ \/ dmn.call.of = "none"
       \/ dmn.call.of = "compute_dmn_proxy" /\ dmn.call.before = <<>>
            /\ LatencyOnly(dmn.call.args)
    /\ \E text \in Texts, latency \in {None} \cup {Some(l) : l \in Latencies},
          rate \in Rates, integrity \in Integrities, marker \in Markers :
          LET args == <<text, latency, rate[1], rate[2], integrity, marker>>
          IN  /\ LatencyOnly(args) \/ latency \in {None, Some(0), Some(1200)}
              /\ dmn.call.of # "none" => LatencyOnly(args)
              /\ dmn' = [dmn EXCEPT !.call =
                            [of |-> "compute_dmn_proxy", args |-> args,
                             ret |-> compute_dmn_proxy(text, latency, rate[1],
                                                       rate[2], integrity, marker),
                             before |-> IF dmn.call.of = "compute_dmn_proxy"
                                           /\ LatencyOnly(dmn.call.args)
                                        THEN <<dmn.call.args, dmn.call.ret>>
                                        ELSE <<>>]]
    /\ UNCHANGED <<runvars, pipeline, fs, log, prev, sent, sb, log2, verdict, flipped, wcall>>

(* apply_policy(...) called directly, once *)
CallApplyPolicy ==
    /\ dmn.call.of = "none"
    /\ \E mode \in Modes, dmn_proxy \in Scores, text \in Texts,
          integrity \in Integrities :
          dmn' = [dmn EXCEPT !.call =
                    [of |-> "apply_policy",
                     args |-> <<mode, dmn_proxy, text, integrity>>,
                     ret |-> apply_policy(mode, dmn_proxy, text, integrity),
                     before |-> <<>>]]
    /\ UNCHANGED <<runvars, pipeline, fs, log, prev, sent, sb, log2, verdict, flipped, wcall>>

InitScore ==
    /\ InitWith({[tasks |-> <<>>, units |-> <<>>]})
    /\ sb = NoSession

NextScore ==
    \/ CallComputeDmnProxy
    \/ CallApplyPolicy

(* the scoring functions called on their own *)
SpecScore == InitScore /\ [][NextScore]_vars

----------------------------------------------------------------------------
(* dmn_security_lab.py: the commands start, log and stop, each one run of
   the program from its read of the state file to its exit.  The time
   stamps, intent, artifact and bpm of an event are left out: no command
   reads them back. *)

Event(type, state, text, latency, integrity, dmn_proxy, policy, reasons) ==
    [type |-> type, session_id |-> state.session_id, mode |-> state.mode,
     text |-> text, latency |-> latency, integrity |-> integrity,
     dmn_proxy |-> dmn_proxy, policy |-> policy, reasons |-> reasons]

(* append_csv: the header goes first into a file that does not exist yet *)
append_csv(csv, row) ==
    IF csv = <<>> THEN <<"header", row>> ELSE Append(csv, row)

(* append_jsonl *)
append_jsonl(jsonl, row) == Append(jsonl, row)

(* round(dmn_val, 3), in thousandths: a score halfway between two
   thousandths goes where its floating-point value happens to lie *)
Round3(score) ==
    IF score % 6 = 3 THEN {score \div 6, score \div 6 + 1}
    ELSE {(score + 3) \div 6}

(* list(dict.fromkeys(reasons)): the first occurrence of each is kept *)
RECURSIVE Dedup(_)
Dedup(reasons) ==
    IF reasons = <<>> THEN <<>>
    ELSE LET front == Dedup(SubSeq(reasons, 1, Len(reasons) - 1))
             r == reasons[Len(reasons)]
         IN  IF \E k \in 1..Len(front) : front[k] = r THEN front
             ELSE Append(front, r)

(* sys.exit(2) before anything is written *)
Refuse(cmd) ==
    dmn' = [dmn EXCEPT !.last = [cmd |-> cmd, exit |-> 2]]

(* save_event, then the state file as the command leaves it *)
Save(cmd, ev, state) ==
    /\ Len(dmn.jsonl) < MaxEvents
    /\ dmn' = [dmn EXCEPT !.csv = append_csv(@, ev),
                          !.jsonl = append_jsonl(@, ev),
                          !.state = state,
                          !.started = IF cmd = "start" THEN @ + 1 ELSE @,
                          !.last = [cmd |-> cmd, exit |-> 0]]

(* cmd_start; the uuid4 of the n-th session started is "s<n>" *)
cmd_start(mode) ==
    /\ IF dmn.state # None
       THEN Refuse("start")
       ELSE LET state == [session_id |-> "s" \o ToString(dmn.started + 1),
                          mode |-> Lower(mode)]
            IN  Save("start", Event("start", state, None, None, None, None, None,
                                    <<>>), Some(state))
    /\ UNCHANGED <<runvars, pipeline, fs, log, prev, sent, sb, log2, verdict, flipped, wcall>>

(* cmd_log *)
cmd_log(text, latency, integrity) ==
    /\ IF dmn.state = None
       THEN Refuse("log")
       ELSE LET state == Val(dmn.state)
                dmn_val == compute_dmn_proxy(text, latency, None, None, integrity,
                                             None)
                pol == apply_policy(state.mode, dmn_val.score, text, integrity)
            IN  \E rounded \in Round3(dmn_val.score) :
                   Save("log", Event("log", state, text, latency, integrity,
                                     Some(rounded), Some(pol.policy),
                                     Dedup(dmn_val.reasons \o pol.reasons)),
                        dmn.state)
    /\ UNCHANGED <<runvars, pipeline, fs, log, prev, sent, sb, log2, verdict, flipped, wcall>>

(* mutant: the state file is left in place *)
cmd_stop_keeping ==
    /\ IF dmn.state = None
       THEN Refuse("stop")
       ELSE Save("stop", Event("stop", Val(dmn.state), None, None, None, None, None,
                               <<>>), dmn.state)
    /\ UNCHANGED <<runvars, pipeline, fs, log, prev, sent, sb, log2, verdict, flipped, wcall>>

(* cmd_stop: the event, then clear_state() *)
cmd_stop ==
    /\ IF dmn.state = None
       THEN Refuse("stop")
       ELSE Save("stop", Event("stop", Val(dmn.state), None, None, None, None, None,
                               <<>>), None)
    /\ UNCHANGED <<runvars, pipeline, fs, log, prev, sent, sb, log2, verdict, flipped, wcall>>

InitDmn ==
    /\ InitWith({[tasks |-> <<>>, units |-> <<>>]})
    /\ sb = NoSession

NextDmn ==
    \/ \E mode \in {"active", "play"} : cmd_start(mode)
    \/ \E text \in {None, Some(<<"scrolling">>)},
          latency \in {None, Some(603), Some(1200)},
          integrity \in {None, Some(79)} : cmd_log(text, latency, integrity)
    \/ cmd_stop

(* the program run again and again in one directory *)
SpecDmn == InitDmn /\ [][NextDmn]_vars

----------------------------------------------------------------------------
(* Vocabulary of the properties *)

IsPrefix(a, b) == Len(a) <= Len(b) /\ SubSeq(b, 1, Len(a)) = a

Last(seq) == seq[Len(seq)]

NonZero(data) == \E k \in 1..Len(data) : data[k] # 0

(* bytes 0..n-1 of the file are there and are zero *)
ExtentZero(file, n) ==
    /\ Len(file.data) >= n
    /\ \A k \in 1..n : file.data[k] = 0

(* a task of the run raised (a validation failure leaves exc alone) *)
TaskFailed == exc # NoExc

(* the run is over and it was a task that failed *)
FailedRun == pc = "done" /\ result.kind = "raised" /\ TaskFailed

IsRecord(line, kind, task) ==
    LineKind(line) = kind /\ LineData(line)[1] = TaskName(task)

(* the Artifact a task of this class produces *)
KindOf(task) == IF task.cls = "Wipe" THEN "wipe_report" ELSE "inventory"
FileOf(task) == IF task.cls = "Wipe" THEN "wipe.json" ELSE "inventory.json"

IsArtifactOf(a, task) ==
    /\ a.kind = KindOf(task)
    /\ a.path = <<Workdir, FileOf(task)>>
    /\ a.sha256 = <<"sha256", wfiles[FileOf(task)]>>

(* C1: whatever the Wipe configuration, processing a unit whose transport is
   not "file" raises WRITE_BLOCKED naming the transport and writes no byte:
   every backing file is after the step what it was before. *)
C1_SafetyGate ==
    [][(pc = "wipe_storage" /\ Unit.transport # "file")
         => /\ fs' = fs
            /\ pc' = "task_error"
            /\ exc'.code = "WRITE_BLOCKED"
            /\ exc'.hint = "transport " \o Unit.transport]_vars

C1_Witness ==
    /\ pc = "task_error"
    /\ exc.code = "WRITE_BLOCKED"
    /\ Cur.cls = "Wipe" /\ Cur.verify /\ Cur.samples = 1
    /\ Unit.transport = "sata"
    /\ Unit.size_bytes = 2
    /\ fs[Unit.path] = File(<<1, 0, 1>>)

(* C2: once Wipe.run has succeeded, every unit of transport "file" and of
   size N >= 0 holds zeros at offsets 0..N-1. *)
C2_ExtentZeroed ==
    (pc = "task_end" /\ Cur.cls = "Wipe")
        => \A k \in 1..Len(device.storage) :
              LET st == device.storage[k]
              IN  (st.transport = "file" /\ st.size_bytes >= 0)
                     => ExtentZero(fs[st.path], st.size_bytes)

C2_Witness ==
    /\ pc = "task_end" /\ Cur.cls = "Wipe"
    /\ Len(device.storage) = 2
    /\ device.storage[1].size_bytes = 2
    /\ fs[device.storage[1].path] = File(<<0, 0>>)
    /\ device.storage[2].size_bytes = 1
    /\ fs[device.storage[2].path] = File(<<0, 1>>)

(* C3: the first line of the log file carries the empty prev and every later
   line carries the SHA-256 of the line before it in the file. *)
C3_HashChain ==
    \A k \in 1..Len(log) :
        LinePrev(log[k]) = IF k = 1 THEN <<>> ELSE Sha256(log[k - 1])

(* C4: once a task has failed no further task is invoked, and what the earlier
   tasks wrote (files, artifacts, log lines) stays as it was; no step ever
   removes or rewrites a log line. *)
C4_FailFast ==
    [][/\ IsPrefix(log, log')
       /\ TaskFailed => /\ invoked' = invoked
                        /\ fs' = fs
                        /\ wfiles' = wfiles
       /\ (~TaskFailed /\ exc' # NoExc) => /\ fs' = fs
                                           /\ wfiles' = wfiles]_vars

C4_Witness ==
    /\ FailedRun
    /\ Len(pipeline) = 3
    /\ invoked = <<1, 2>>
    /\ pipeline[1].cls = "Wipe"
    /\ wfiles["wipe.json"] = WipeReport
    /\ Len(device.storage) = 1
    /\ fs[device.storage[1].path] = File(<<0, 1>>)
    /\ Len(log) = 4

(* C5: when the k-th task of a first run fails, the log holds 2(k-1)+2 lines:
   task_start, task_end for each of the tasks 1..k-1 in order, then task_start
   and, last, task_error for task k. *)
C5_LogOnFailure ==
    FailedRun =>
        LET k == Len(invoked)
        IN  /\ Len(log) = 2 * (k - 1) + 2
            /\ \A j \in 1..(k - 1) :
                  /\ IsRecord(log[2 * j - 1], "task_start", pipeline[j])
                  /\ IsRecord(log[2 * j], "task_end", pipeline[j])
            /\ IsRecord(log[2 * k - 1], "task_start", pipeline[k])
            /\ IsRecord(log[2 * k], "task_error", pipeline[k])

C5_Witness ==
    /\ FailedRun
    /\ Len(pipeline) = 3
    /\ Len(invoked) = 2
    /\ pipeline[1].cls = "Inventory"
    /\ pipeline[2].cls = "Wipe"
    /\ exc.code = "VERIFY_MISMATCH"

(* C6: the step that hands a task's failure to the caller finds the task_error
   line of that task already last in the log, and hands over the exception the
   task raised, unchanged. *)
C6_ErrorLoggedThenPropagated ==
    [][(result.kind # "raised" /\ result'.kind = "raised" /\ TaskFailed)
         => /\ log # <<>>
            /\ IsRecord(Last(log), "task_error", Cur)
            /\ LineData(Last(log))[2] = <<exc.type, exc.code, exc.hint>>
            /\ log' = log
            /\ result'.exc = exc]_vars

C6_Witness ==
    /\ FailedRun
    /\ result.exc.type = "ReuseKitError"
    /\ result.exc.code = "WRITE_BLOCKED"
    /\ result.exc.hint = "transport sata"
    /\ LineKind(Last(log)) = "task_error"

(* C7: when all N tasks of a first run succeed, the log holds 2N lines:
   task_start, task_end of task 1, ..., task_start, task_end of task N. *)
C7_LogOnSuccess ==
    result.kind = "returned" =>
        /\ Len(log) = 2 * Len(pipeline)
        /\ \A j \in 1..Len(pipeline) :
              /\ IsRecord(log[2 * j - 1], "task_start", pipeline[j])
              /\ IsRecord(log[2 * j], "task_end", pipeline[j])
              /\ LineData(log[2 * j])[2] = <<Workdir, FileOf(pipeline[j])>>

C7_Witness ==
    /\ result.kind = "returned"
    /\ Len(pipeline) = 3
    /\ pipeline[1].cls = "Inventory"
    /\ pipeline[2].cls = "Wipe"
    /\ pipeline[3].cls = "Inventory"

(* C8 as stated: when the k-th task fails the caller obtains a sequence of
   exactly k-1 Artifacts. *)
C8_AsStated ==
    FailedRun => /\ result.kind = "returned"
                 /\ Len(result.artifacts) = Len(invoked) - 1

(* C8 as amended: a run in which no task fails returns one Artifact per task,
   the i-th being the one of the i-th task; a run in which the k-th task fails
   returns nothing: the caller receives the exception, and the k-1 Artifacts
   collected stay in the local list of the run. *)
C8_ReturnedArtifacts ==
    /\ result.kind = "returned" =>
          /\ Len(result.artifacts) = Len(pipeline)
          /\ \A j \in 1..Len(pipeline) :
                IsArtifactOf(result.artifacts[j], pipeline[j])
    /\ FailedRun =>
          /\ result.kind = "raised"
          /\ result.artifacts = <<>>
          /\ Len(artifacts) = Len(invoked) - 1
          /\ \A j \in 1..Len(artifacts) : IsArtifactOf(artifacts[j], pipeline[j])

C8_Witness ==
    /\ FailedRun
    /\ Len(invoked) = 3
    /\ Len(artifacts) = 2
    /\ artifacts[1].kind = "inventory"
    /\ artifacts[2].kind = "wipe_report"
    /\ result.artifacts = <<>>

(* a pipeline validate() must reject *)
BadElement(t) == t.cls \notin {"Task", "Wipe", "Inventory"} \/ t.name \in {"", NoAttr}
Invalid(tasks) == tasks = <<>> \/ \E k \in 1..Len(tasks) : BadElement(tasks[k])

(* C9: a run whose pipeline fails validation invokes no task and appends no
   line to the log, wherever the offending element stands. *)
C9_ValidationFirst ==
    Invalid(pipeline) =>
        /\ log = <<>>
        /\ invoked = <<>>
        /\ \A f \in DOMAIN wfiles : wfiles[f] = <<>>
        /\ pc \in {"idle", "done"}
        /\ pc = "done" => /\ result.kind = "raised"
                          /\ result.exc.code \in {"EMPTY_PIPELINE", "INVALID_TASK",
                                                  "MISSING_TASK_NAME"}

C9_Witness ==
    /\ pc = "done"
    /\ Len(pipeline) = 3
    /\ ~BadElement(pipeline[1]) /\ pipeline[1].cls = "Wipe"
    /\ ~BadElement(pipeline[2])
    /\ BadElement(pipeline[3])
    /\ result.exc.code = "MISSING_TASK_NAME"
    /\ result.exc.hint = "index 2"
    /\ log = <<>>

(* task_start lines not yet answered by a task_end or task_error line *)
RECURSIVE InProgress(_)
InProgress(lines) ==
    IF lines = <<>> THEN 0
    ELSE InProgress(SubSeq(lines, 1, Len(lines) - 1))
         + (IF LineKind(Last(lines)) = "task_start" THEN 1 ELSE -1)

(* C10: the step that invokes the run of task k finds the log ending in the
   task_end line of task k-1 followed by the task_start line of task k, and at
   no point does the log show two tasks in progress. *)
C10_StrictSequencing ==
    [][/\ InProgress(log') \in {0, 1}
       /\ Len(invoked') > Len(invoked) =>
             LET k == Len(invoked')
             IN  /\ Len(log) = 2 * k - 1
                 /\ IsRecord(log[2 * k - 1], "task_start", pipeline[k])
                 /\ k > 1 => IsRecord(log[2 * k - 2], "task_end", pipeline[k - 1])]_vars

C10_Witness ==
    /\ pc = "wipe_storage"
    /\ invoked = <<1, 2>>
    /\ Len(log) = 3
    /\ LineKind(log[2]) = "task_end"
    /\ LineKind(log[3]) = "task_start"

----------------------------------------------------------------------------
(* C11: the verification of a unit whose file holds a non-zero byte makes
   Wipe.run raise VERIFY_MISMATCH, and from then on no backing file changes,
   no unit is entered, written or verified, the units after the failing one
   stay NotStarted, and the caller receives that exception. *)
Mismatch == exc.code = "VERIFY_MISMATCH"

C11_VerifyMismatchAborts ==
    [][/\ (pc = "verify" /\ fs[Unit.path].exists /\ NonZero(fs[Unit.path].data))
            => /\ exc'.type = "ReuseKitError"
               /\ exc'.code = "VERIFY_MISMATCH"
               /\ pc' = "task_error"
               /\ fs' = fs
       /\ Mismatch
            => /\ exc' = exc
               /\ fs' = fs
               /\ u' = u
               /\ ustate' = ustate
               /\ pc' \notin {"wipe_storage", "wiping", "verify", "report"}
               /\ \A k \in (u + 1)..Len(device.storage) : ustate[k] = "NotStarted"
               /\ pc' = "done" => result' = Raised(exc)]_vars

(* the first of two units failed verification; the second, which the gate
   would have let through, still holds its non-zero byte *)
C11_Witness ==
    /\ pc = "done"
    /\ Mismatch
    /\ result = Raised(exc)
    /\ Len(device.storage) = 2
    /\ u = 1
    /\ device.storage[2].transport = "file"
    /\ device.storage[2].size_bytes = 1
    /\ fs[UnitPath(2)] = File(<<1>>)
    /\ ustate[2] = "NotStarted"

----------------------------------------------------------------------------
(* C13: Wipe.run reaches the writing of its report, and so the return of its
   Artifact, only with every unit of the device through the gate, its extent
   zero and, where verification applies, its whole file zero; the step that
   writes the report is the only one that ends Wipe.run normally.  Once a
   unit has failed, no file of the working directory and no Artifact
   changes, and a run failed in its first Wipe leaves no report file and
   hands the caller no Artifact. *)
UnitPassed(k) ==
    LET st == device.storage[k]
    IN  /\ st.transport = "file"
        /\ fs[st.path].exists
        /\ ExtentZero(fs[st.path], st.size_bytes)
        /\ (Cur.verify /\ Cur.samples # 0) => ~NonZero(fs[st.path].data)
        /\ ustate[k] = "Done"

InWipe == pc \notin {"idle", "done"} /\ i \in 1..Len(pipeline) /\ Cur.cls = "Wipe"

FirstWipe == \A j \in 1..(i - 1) : pipeline[j].cls # "Wipe"

C13_ReportAfterAllUnits ==
    [][/\ (InWipe /\ pc = "report")
            => /\ \A k \in 1..Len(device.storage) : UnitPassed(k)
               /\ wfiles'["wipe.json"] = WipeReport
               /\ art' = Artifact("wipe_report", <<Workdir, "wipe.json">>,
                                  <<"sha256", WipeReport>>)
       /\ (InWipe /\ pc' = "task_end") => pc = "report"
       /\ (InWipe /\ pc # "report") => (wfiles' = wfiles /\ art' = art)
       /\ (InWipe /\ exc # NoExc) => artifacts' = artifacts
       /\ (InWipe /\ exc # NoExc /\ pc' = "done")
            => /\ result'.kind = "raised"
               /\ result'.artifacts = <<>>
               /\ FirstWipe => wfiles'["wipe.json"] = <<>>]_vars

(* the second unit of the device failed after the first had passed: no
   report file, no Artifact *)
C13_Witness ==
    /\ FailedRun
    /\ pipeline[i].cls = "Wipe"
    /\ Len(device.storage) = 2
    /\ u = 2
    /\ ustate[1] = "Done"
    /\ wfiles["wipe.json"] = <<>>
    /\ result.artifacts = <<>>

----------------------------------------------------------------------------
(* C14 as stated: a unit written without error is verified exactly when
   verify is set and samples > 0. *)
C14_AsStated ==
    [][(pc = "wiping" /\ exc' = NoExc)
          => (pc' = "verify" <=> (Cur.verify /\ Cur.samples > 0))]_vars

(* C14 as amended: a unit written without error is verified exactly when
   verify is set and samples is not 0, a negative count included; with
   verify unset or samples = 0 the verification step is never reached. *)
C14_VerifyWhenNonZero ==
    [][/\ (pc = "wiping" /\ exc' = NoExc)
            => (pc' = "verify" <=> (Cur.verify /\ Cur.samples # 0))
       /\ pc' = "verify" => (pc = "wiping" /\ Cur.verify /\ Cur.samples # 0)]_vars

(* a Wipe with a negative sample count is verifying a unit *)
C14_Witness ==
    /\ pc = "verify"
    /\ Cur.verify
    /\ Cur.samples < 0

----------------------------------------------------------------------------
(* C15: within one Wipe.run a step changes the state of at most one unit,
   and only along NotStarted -> Wiping, NotStarted -> Blocked,
   Wiping -> Verifying, Wiping -> Done or Verifying -> Done; the unit that
   leaves NotStarted is the first one still there, and every unit before it
   is Done, its extent zero on disk and, where verification applies, its
   whole file zero.  A unit is Verifying only with its own extent zero. *)
UnitSteps ==
    {<<"NotStarted", "Wiping">>, <<"NotStarted", "Blocked">>,
     <<"Wiping", "Verifying">>, <<"Wiping", "Done">>, <<"Verifying", "Done">>}

Flushed(k) ==
    LET st == device.storage[k]
    IN  /\ fs[st.path].exists
        /\ ExtentZero(fs[st.path], st.size_bytes)

C15_UnitStateMachine ==
    [][pc # "task_run"
         => /\ \A k \in DOMAIN ustate :
                  ustate'[k] # ustate[k]
                     => /\ <<ustate[k], ustate'[k]>> \in UnitSteps
                        /\ k = u
                        /\ \A j \in DOMAIN ustate : j # k => ustate'[j] = ustate[j]
                        /\ \A j \in 1..(k - 1) : ustate[j] = "Done"
                        /\ \A j \in (k + 1)..Len(ustate) : ustate[j] = "NotStarted"
            /\ \A k \in DOMAIN ustate :
                  pc \in {"wipe_storage", "wiping", "verify", "report"} =>
                  /\ ustate'[k] \in {"Verifying", "Done"} => Flushed(k)'
                  /\ (ustate'[k] = "Done" /\ Cur.verify /\ Cur.samples # 0)
                        => ~NonZero(fs'[device.storage[k].path].data)
                  /\ ustate'[k] = "Verifying" => (Cur.verify /\ Cur.samples # 0)]_vars

(* the first unit is Done and the second is being verified *)
C15_Witness ==
    /\ Len(device.storage) = 2
    /\ ustate = <<"Done", "Verifying">>
    /\ pc = "verify"
    /\ u = 2

----------------------------------------------------------------------------
(* C18: over any number of runs of a Session, with writes that may fail,
   every step leaves the lines already in the log file where and what they
   were and adds at most one line at the end; a step in which event()
   returns adds exactly one, of the kind of the call and carrying the cursor
   as prev; a step that is not an event() call leaves the file alone. *)
EventPcs == {"task_start", "task_end", "task_error"}

C18_AppendOnly ==
    [][/\ IsPrefix(log, log')
       /\ Len(log') <= Len(log) + 1
       /\ (pc \in EventPcs /\ pc' # "done")
            => /\ Len(log') = Len(log) + 1
               /\ LineKind(Last(log')) = pc
               /\ LinePrev(Last(log')) = prev
       /\ (pc \in EventPcs /\ pc' = "done") => log' = log
       /\ pc \notin EventPcs => log' = log]_vars

(* a second run of the Session has added its lines after those of the first *)
C18_Witness ==
    /\ runs = 2
    /\ pc = "done"
    /\ Len(log) >= 4
    /\ LinePrev(log[1]) = <<>>
    /\ LineKind(log[3]) = "task_start"

----------------------------------------------------------------------------
(* C12: after a Wipe that succeeded, whatever its verify and samples, once a
   byte of a unit has been set to a non-zero value, wherever in the file, a
   direct verification of that unit raises VERIFY_MISMATCH. *)
C12_FlipDetected ==
    (/\ verdict.of = "verify"
     /\ verdict.on[2] # <<>>
     /\ verdict.on[1] = verdict.on[2][1])
        => /\ verdict.exc.type = "ReuseKitError"
           /\ verdict.exc.code = "VERIFY_MISMATCH"

(* the last byte of a three-byte unit, wiped without verification, was set
   and the verification of the unit was then asked for *)
C12_Witness ==
    /\ verdict.of = "verify"
    /\ flipped = <<1, 3>>
    /\ verdict.on = <<1, flipped>>
    /\ ~pipeline[1].verify
    /\ fs[UnitPath(1)].data = <<0, 0, 1>>
    /\ verdict.exc.code = "VERIFY_MISMATCH"

----------------------------------------------------------------------------
(* C19: a validate() of the empty task list raises EMPTY_PIPELINE marked
   recoverable, and a validate() of the same Pipeline after that failure,
   tasks having been added, raises nothing when those tasks are Task
   instances with names. *)
Named(t) == t.name \notin {NoAttr, ""}

InstanceOfTask(t) == t.cls \in {"Task", "Wipe", "Inventory"}

C19_EmptyThenRecover ==
    verdict.of = "validate"
       => /\ verdict.on = <<>>
               => /\ verdict.exc.type = "ReuseKitError"
                  /\ verdict.exc.code = "EMPTY_PIPELINE"
                  /\ verdict.exc.recoverable
          /\ (/\ verdict.before = "EMPTY_PIPELINE"
              /\ verdict.on # <<>>
              /\ \A k \in 1..Len(verdict.on) :
                    InstanceOfTask(verdict.on[k]) /\ Named(verdict.on[k]))
               => verdict.exc = NoExc

(* the Pipeline that failed as empty passed once two tasks were added *)
C19_Witness ==
    /\ verdict.of = "validate"
    /\ verdict.before = "EMPTY_PIPELINE"
    /\ Len(verdict.on) = 2
    /\ verdict.on = pipeline
    /\ verdict.exc = NoExc

----------------------------------------------------------------------------
(* C20 as stated: validate() raises nothing on a non-empty list whose
   elements all have a run method and a non-empty name. *)
HasRun(t) == t.cls \in {"Task", "Wipe", "Inventory", "Duck"}

C20_AsStated ==
    (/\ verdict.of = "validate"
     /\ verdict.on # <<>>
     /\ \A k \in 1..Len(verdict.on) : HasRun(verdict.on[k]) /\ Named(verdict.on[k]))
        => verdict.exc = NoExc

(* C20 as amended: validate() raises nothing exactly on the non-empty lists
   whose elements are all instances of Task (or of a subclass) with a
   non-empty name; an element that only has a run method and a name is
   refused with INVALID_TASK. *)
C20_ValidWhenTaskInstances ==
    verdict.of = "validate"
       => /\ verdict.exc = NoExc
               <=> /\ verdict.on # <<>>
                   /\ \A k \in 1..Len(verdict.on) :
                         InstanceOfTask(verdict.on[k]) /\ Named(verdict.on[k])
          /\ (/\ verdict.on # <<>>
              /\ \E k \in 1..Len(verdict.on) : verdict.on[k] = Duck
              /\ \A k \in 1..Len(verdict.on) :
                    HasRun(verdict.on[k]) /\ Named(verdict.on[k]))
               => verdict.exc.code = "INVALID_TASK"

(* a list of a Task instance and an object that only has run and a name was
   validated *)
C20_Witness ==
    /\ verdict.of = "validate"
    /\ verdict.on = <<Inventory, Duck>>
    /\ verdict.exc.code = "INVALID_TASK"

----------------------------------------------------------------------------
(* C16: with B in another working directory than A, the log file of each
   holds exactly the lines its own Logger wrote, in order, its first line
   with the empty prev and every other with the hash of the line before it;
   no step of B changes the log file or the cursor of A, and no step of A
   those of B. *)
ChainValid(file) ==
    \A k \in 1..Len(file) :
        LinePrev(file[k]) = IF k = 1 THEN <<>> ELSE <<"sha256", file[k - 1]>>

Apart == sb # NoSession /\ sb.path # Workdir

C16_IndependentChains ==
    [][Apart' =>
         /\ log' = sent'.A
         /\ log2' = sent'.B
         /\ ChainValid(log')
         /\ ChainValid(log2')
         /\ (sb' # sb /\ sb # NoSession) => (log' = log /\ prev' = prev)
         /\ (sb' = sb \/ sb = NoSession)
               => (log2' = log2 /\ sb'.prev = IF sb = NoSession THEN <<>> ELSE sb.prev)
       ]_vars

(* B wrote its two lines after the first line of A and is done, while A,
   three lines in its file, still has the end of its second task to log *)
C16_Witness ==
    /\ Apart
    /\ sb.pc = "done"
    /\ Len(log2) = 2
    /\ pc = "task_end"
    /\ i = 2
    /\ Len(log) = 3
    /\ LineTs(log[1]) < LineTs(log2[1])

----------------------------------------------------------------------------
(* C17: the lines each Logger wrote form, taken by themselves and in order,
   a valid chain starting from the empty prev, whatever the file held when
   the Logger was constructed and whatever was written to it in between; no
   step removes or changes a line of either file; and a file both Loggers
   have written to is not a valid chain read line by line. *)
Shared == sb # NoSession /\ sb.path = Workdir

C17_ChainPerLogger ==
    [][/\ ChainValid(sent'.A)
       /\ ChainValid(sent'.B)
       /\ IsPrefix(log, log')
       /\ IsPrefix(log2, log2')
       /\ (sb = NoSession /\ sb' # NoSession) => sb'.prev = <<>>
       /\ (Len(sent'.B) = 1 /\ sent.B = <<>>)
            => /\ LinePrev(sent'.B[1]) = <<>>
               /\ Shared => log' = Append(log, sent'.B[1])
       /\ (Shared' /\ sent'.A # <<>> /\ sent'.B # <<>>) => ~ChainValid(log')
       /\ Shared' => Len(log') = Len(sent'.A) + Len(sent'.B)]_vars

(* in the file A and B share, the first line of B stands second, between
   the first two lines of A *)
C17_Witness ==
    /\ Shared
    /\ Len(log) >= 3
    /\ Len(sent.A) >= 2
    /\ Len(sent.B) >= 1
    /\ LinePrev(log[2]) = <<>>
    /\ LineKind(log[2]) = "task_start"
    /\ LinePrev(log[3]) = <<"sha256", log[1]>>

----------------------------------------------------------------------------
(* C21: validate() of a non-empty list with an offending element raises for
   the smallest index whose element is not a Task instance or has no
   non-empty name: INVALID_TASK if that element is not a Task instance,
   MISSING_TASK_NAME otherwise; the hint carries that index (from 0) and no
   other, and the error is not recoverable. *)
Offends(t) == ~InstanceOfTask(t) \/ ~Named(t)

----------------------------------------------------------------------------
(* C22: a call of validate(), whether it raises or not, leaves the task list
   with its elements and their fields, the log, the backing files and the
   files of the working directory as they were, and a call that follows a
   call on the same list has the same outcome. *)
C22_ValidatePure ==
    [][verdict' # verdict
         => /\ pipeline' = pipeline
            /\ log' = log
            /\ prev' = prev
            /\ fs' = fs
            /\ wfiles' = wfiles
            /\ device' = device
            /\ (verdict.of = "validate" /\ verdict.on = pipeline)
                  => verdict'.exc = verdict.exc]_vars

(* the list of one object that is no Task was validated twice in a row and
   refused twice (the empty list it grew from is refused otherwise) *)
C22_Witness ==
    /\ verdict.of = "validate"
    /\ verdict.on = <<NotATask>>
    /\ pipeline = verdict.on
    /\ verdict.exc.code = "INVALID_TASK"
    /\ verdict.before = "INVALID_TASK"
    /\ fs[UnitPath(1)] = File(<<1>>)

----------------------------------------------------------------------------
(* C23: no step of a run, whether the run succeeds or fails, changes the
   Device: its fields, its storage list and the fields of every Storage
   record stay what they were. *)
C23_DeviceUnchanged ==
    [][device' = device]_vars

(* a run over two units, both wiped and verified, is over *)
C23_Witness ==
    /\ pc = "done"
    /\ result.kind = "returned"
    /\ Len(device.storage) = 2
    /\ ustate = <<"Done", "Done">>
    /\ pipeline[1].cls = "Wipe"
    /\ pipeline[1].verify
    /\ \A k \in 1..2 : device.storage[k].transport = "file"

----------------------------------------------------------------------------
(* C27 as stated: the verification of a unit that was just wiped raises
   nothing, whatever the file holds beyond the extent. *)
C27_AsStated ==
    [][pc = "verify" => exc' = NoExc]_vars

(* C27 as amended: the verification reads the whole backing file: that of a
   unit just wiped raises nothing exactly when no byte of the file at or
   beyond size_bytes is non-zero, and raises VERIFY_MISMATCH otherwise. *)
BeyondExtent(st, file) ==
    \E k \in 1..Len(file.data) : k > st.size_bytes /\ file.data[k] # 0

C27_VerifyReadsWholeFile ==
    [][pc = "verify"
         => /\ ExtentZero(fs[Unit.path], Unit.size_bytes)
            /\ IF BeyondExtent(Unit, fs[Unit.path])
               THEN exc'.code = "VERIFY_MISMATCH" /\ pc' = "task_error"
               ELSE exc' = NoExc /\ pc' # "task_error"]_vars

(* a unit of one byte on a file of two was wiped, and its verification
   failed on the second byte *)
C27_Witness ==
    /\ pc = "task_error"
    /\ Mismatch
    /\ Unit.size_bytes = 1
    /\ fs[Unit.path].data = <<0, 1>>
    /\ ustate[u] = "Verifying"

----------------------------------------------------------------------------
(* C28: the transport of a unit is looked at when the loop of Wipe.run comes
   to it.  A file is written only as the current unit, with every unit up to
   it of transport "file"; when Wipe.run has failed with WRITE_BLOCKED the
   current unit is the first one of another transport, the hint names that
   transport, every unit before it is Done with its extent zero and every
   unit after it is NotStarted, and from then on no file changes; a failed
   run over a device with such a unit that did not end in WRITE_BLOCKED
   failed at a unit before it. *)
NonFile == {k \in 1..Len(device.storage) : device.storage[k].transport # "file"}

FirstNonFile == CHOOSE k \in NonFile : \A m \in NonFile : k <= m

Blocked == exc.code = "WRITE_BLOCKED"

----------------------------------------------------------------------------
(* C29: an event() whose write fails leaves the cursor as it was, so that at
   every moment the cursor is the empty sentinel if the file is empty and
   the hash of the last line of the file otherwise. *)
C29_CursorNotAdvanced ==
    [][/\ (pc \in EventPcs /\ pc' = "done" /\ log' = log) => prev' = prev
       /\ prev' = IF log' = <<>> THEN <<>> ELSE <<"sha256", Last(log')>>]_vars

----------------------------------------------------------------------------
(* C30: with the writes of the log succeeding, in every state of a run each
   task_start line is the last line, its task being under way, or is followed
   by a task_end or task_error line of the same task name, and each task_end
   or task_error line comes directly after a task_start line of its name. *)
Closing == {"task_end", "task_error"}

NameOf(line) == LineData(line)[1]

C30_LogBracketing ==
    \A k \in 1..Len(log) :
        /\ LineKind(log[k]) \in {"task_start"} \cup Closing
        /\ LineKind(log[k]) = "task_start"
             => \/ /\ k = Len(log)
                   /\ pc \in {"task_run", "wipe_storage", "wiping", "verify",
                               "report", "task_end", "task_error"}
                   /\ NameOf(log[k]) = IF Cur.name = NoAttr THEN Cur.cls ELSE Cur.name
                \/ /\ k < Len(log)
                   /\ LineKind(log[k + 1]) \in Closing
                   /\ NameOf(log[k + 1]) = NameOf(log[k])
        /\ LineKind(log[k]) \in Closing
             => /\ k > 1
                /\ LineKind(log[k - 1]) = "task_start"
                /\ NameOf(log[k - 1]) = NameOf(log[k])

(* the first task ended, the second failed, and the third never started *)
C30_Witness ==
    /\ pc = "done"
    /\ Len(pipeline) = 3
    /\ Len(log) = 4
    /\ LineKind(log[2]) = "task_end"
    /\ LineKind(log[3]) = "task_start"
    /\ LineKind(log[4]) = "task_error"
    /\ NameOf(log[1]) # NameOf(log[3])

----------------------------------------------------------------------------
(* C24: apply_policy returns "breach" exactly when the mode is "active" in
   any letter case and the score is at least 0.6, or the text matches a
   procrastination phrase, or the integrity is an integer below 80; for any
   other mode it returns "ok" whatever the score, text and integrity. *)
PolicyCall == dmn.call.of = "apply_policy"

C24_PolicyBreach ==
    PolicyCall =>
        LET mode == dmn.call.args[1]
            score == dmn.call.args[2]
            text == dmn.call.args[3]
            integrity == dmn.call.args[4]
            active == mode \in {"active", "Active", "ACTIVE"}
            signal == \/ 10 * score >= 6 * One
                      \/ text # None /\ PROCRAST_RE(Val(text))
                      \/ integrity # None /\ Val(integrity) < 80
        IN  /\ dmn.call.ret.policy \in {"breach", "ok"}
            /\ dmn.call.ret.policy = "breach" <=> (active /\ signal)
            /\ ~active => dmn.call.ret.policy = "ok"

(* upper-case ACTIVE with the score exactly 0.6 and no other signal *)
C24_Witness ==
    /\ PolicyCall
    /\ dmn.call.args = <<"ACTIVE", 3600, Some(<<"work">>), Some(80)>>
    /\ dmn.call.ret.policy = "breach"

----------------------------------------------------------------------------
(* C26: called with a latency of at least 0 and nothing else,
   compute_dmn_proxy returns 0 at 0 s, 0.3 at 300 s, 0.4 at 600 s, 0.5 from
   1200 s on and the value on the straight line between two of these points
   in between; of two such calls the one with the longer latency returns no
   less; and whatever the arguments the score is between 0 and 1. *)
ScoreCall == dmn.call.of = "compute_dmn_proxy"

Knots == {<<0, 0>>, <<300, 1800>>, <<600, 2400>>, <<1200, 3000>>}

OnCurve(latency, score) ==
    /\ \A a \in Knots, b \in Knots :
          (a[1] < b[1] /\ a[1] <= latency /\ latency <= b[1]
             /\ ~\E c \in Knots : a[1] < c[1] /\ c[1] < b[1])
            => (score - a[2]) * (b[1] - a[1]) = (b[2] - a[2]) * (latency - a[1])
    /\ latency >= 1200 => score = 3000

C26_LatencyCurve ==
    ScoreCall =>
        /\ dmn.call.ret.score >= 0
        /\ dmn.call.ret.score <= One
        /\ (LatencyOnly(dmn.call.args) /\ Val(dmn.call.args[2]) >= 0)
             => OnCurve(Val(dmn.call.args[2]), dmn.call.ret.score)
        /\ (LatencyOnly(dmn.call.args) /\ dmn.call.before # <<>>
               /\ Val(dmn.call.before[1][2]) <= Val(dmn.call.args[2]))
             => dmn.call.before[2].score <= dmn.call.ret.score

(* 599 s, then 600 s: 2398/6000, then 0.4 *)
C26_Witness ==
    /\ ScoreCall
    /\ LatencyOnly(dmn.call.args)
    /\ dmn.call.args[2] = Some(600)
    /\ dmn.call.ret.score = 2400
    /\ dmn.call.before # <<>>
    /\ dmn.call.before[1][2] = Some(599)
    /\ dmn.call.before[2].score = 2398

----------------------------------------------------------------------------
(* C25: a start with the state file holding a session, and a log or a stop
   with none, exit with status 2 and leave both logs and the state file as
   they were; the events of the log are blocks of one start, any number of
   log and one stop of one session id, the last block possibly without its
   stop; a session is active exactly when the last block has no stop yet,
   and it is the session of that block. *)
Active == dmn.state # None

WellBlocked(events) ==
    \A k \in 1..Len(events) :
        /\ events[k].type \in {"start", "log", "stop"}
        /\ events[k].type = "start" => (k = 1 \/ events[k - 1].type = "stop")
        /\ events[k].type \in {"log", "stop"}
             => /\ k > 1
                /\ events[k - 1].type \in {"start", "log"}
                /\ events[k].session_id = events[k - 1].session_id
        /\ \A j \in 1..(k - 1) :
              (events[j].type = "start" /\ events[k].type = "start")
                 => events[j].session_id # events[k].session_id

C25_Lifecycle ==
    [][/\ (dmn'.last.cmd = "start" /\ Active) => dmn'.last.exit = 2
       /\ (dmn'.last.cmd \in {"log", "stop"} /\ ~Active) => dmn'.last.exit = 2
       /\ dmn'.last.exit = 2
            => /\ dmn'.jsonl = dmn.jsonl
               /\ dmn'.csv = dmn.csv
               /\ dmn'.state = dmn.state
       /\ dmn'.last.exit = 0
            => /\ Len(dmn'.jsonl) = Len(dmn.jsonl) + 1
               /\ SubSeq(dmn'.jsonl, 1, Len(dmn.jsonl)) = dmn.jsonl
               /\ dmn'.jsonl[Len(dmn'.jsonl)].type = dmn'.last.cmd
       /\ WellBlocked(dmn'.jsonl)
       /\ Active' <=> (dmn'.jsonl # <<>>
                         /\ dmn'.jsonl[Len(dmn'.jsonl)].type # "stop")
       /\ Active' => Val(dmn'.state).session_id
                        = dmn'.jsonl[Len(dmn'.jsonl)].session_id]_vars

(* a second session was started after the first was stopped, and a start
   while it is active was refused *)
C25_Witness ==
    /\ Len(dmn.jsonl) = 4
    /\ [k \in 1..4 |-> dmn.jsonl[k].type] = <<"start", "log", "stop", "start">>
    /\ dmn.jsonl[1].session_id # dmn.jsonl[4].session_id
    /\ Active
    /\ dmn.last = [cmd |-> "start", exit |-> 2]


----------------------------------------------------------------------------
(* C31: when run is called again on a Session whose earlier run returned,
   saw a task fail or failed validation, the cursor the later run starts
   with is the hash of the last line of the file (not the empty sentinel,
   the file holding a line), and the first record of the later run is added
   after the lines of the earlier runs and carries that cursor as prev. *)
EndedAsClaimed ==
    \/ result.kind = "returned"
    \/ exc # NoExc
    \/ (result.kind = "raised" /\ i = 0)

C31_ChainAcrossRuns ==
    [][/\ (pc = "done" /\ runs >= 1 /\ runs' = runs + 1 /\ EndedAsClaimed
              /\ log # <<>>)
            => /\ prev # <<>>
               /\ prev = <<"sha256", Last(log)>>
       /\ (pc = "task_start" /\ i = 1 /\ runs >= 2 /\ log' # log)
            => /\ IsPrefix(log, log')
               /\ Len(log') = Len(log) + 1
               /\ LinePrev(Last(log')) = prev]_vars

----------------------------------------------------------------------------
(* C32: the overwrite loop of _wipe_storage comes to an end whatever
   size_bytes is; its writes are of 1 to ChunkLen bytes each (ChunkLen being
   the 1 MiB of the code), the first at offset 0 and each where the one
   before ended, max(size_bytes, 0) bytes in all; and when the call returns
   every byte the file had at an offset >= size_bytes is as it was, the file
   being no longer than the longer of its old length and the extent. *)
RECURSIVE Written(_)
Written(writes) ==
    IF writes = <<>> THEN 0 ELSE writes[Len(writes)].n + Written(SubSeq(writes, 1, Len(writes) - 1))

Extent == IF device.storage[wcall.unit].size_bytes > 0
          THEN device.storage[wcall.unit].size_bytes ELSE 0

C32_LoopSafe ==
    /\ wcall.pc \in {"loop", "returned"}
         => /\ \A k \in 1..Len(wcall.writes) :
                  /\ wcall.writes[k].n >= 1
                  /\ wcall.writes[k].n <= ChunkLen
                  /\ wcall.writes[k].offset = Written(SubSeq(wcall.writes, 1, k - 1))
            /\ Written(wcall.writes) <= Extent
    /\ wcall.pc = "returned"
         => /\ Written(wcall.writes) = Extent
            /\ fs[device.storage[wcall.unit].path].data = wcall.data
            /\ Len(wcall.data) = (IF Len(wcall.before) > Extent
                                  THEN Len(wcall.before) ELSE Extent)
            /\ \A k \in 1..Len(wcall.before) :
                  k > Extent => wcall.data[k] = wcall.before[k]

C32_ChunkedOverwrite ==
    /\ []C32_LoopSafe
    /\ [][wcall.pc = "loop" /\ wcall'.pc = "loop"
             => wcall'.remaining < wcall.remaining]_vars
    /\ <>(wcall.pc \in {"returned", "raised"})

(* an extent of three bytes over a file of three non-zero bytes: a write of
   2 bytes at offset 0, then one of 1 byte at offset 2, and the call returned *)
C32_Witness ==
    /\ wcall.pc = "returned"
    /\ device.storage[1].size_bytes = 3
    /\ wcall.before = <<1, 1, 1>>
    /\ wcall.writes = <<[offset |-> 0, n |-> 2], [offset |-> 2, n |-> 1]>>
    /\ fs[device.storage[1].path].data = <<0, 0, 0>>

====
